---- MODULE Spec2Model ----
(***************************************************************************)
(* Lifecycle of imgui-rs contexts (src/src/context.rs): the Context and    *)
(* SuspendedContext values of the program, the Dear ImGui state they wrap  *)
(* (the current-context pointer and the context instances), and the        *)
(* operations create / suspend / activate / drop and the four setters.     *)
(***************************************************************************)
EXTENDS Integers, FiniteSets, Sequences, TLC

\* ---------------------------------------------------------------- bounds
\* igCreateContext calls in one run
MaxCreates == 3
\* program variables that can hold a Context or a SuspendedContext
MaxSlots == MaxCreates
\* setter calls in one run
MaxSets == 1

\* ptr::null() / ptr::null_mut()
NULL == 0

Slots == 1 .. MaxSlots
\* addresses of context instances: one per value that can be alive
Handles == 1 .. MaxSlots
InstIds == 1 .. MaxCreates
BufIds == 1 .. MaxSets + 1
\* contents of the strings handed to the setters
Texts == {"a", "b"}
\* address of a string owned by the engine itself (a default of its IO block)
EngineStatic == MaxSets + 2

VARIABLES
    engine,   \* Dear ImGui: current-context pointer, context instances, call counts
    strings,  \* the ImString buffers allocated so far: <<[live, text], ...>>
    vals,     \* the program's variables: a Context, a SuspendedContext or nothing
    nsets,    \* the number of setter calls so far
    last,     \* the last operation called and what it returned
    gate,     \* CTX_MUTEX: the thread that holds it and how many times
    th,       \* each thread's position in the operation it is running
    ecall,    \* the last call across the engine boundary
    failed,   \* the variables whose SuspendedContext a failed activate returned
    own       \* the thread each value lives on: Context is neither Send nor Sync

vars == <<engine, strings, vals, nsets, last, gate, th, ecall, failed, own>>

\* ------------------------------------------------------------ Rust values
\* Option<ImString>: None, or Some(ImString) whose buffer is at address ptr
None == [some |-> FALSE, ptr |-> NULL]
Some(p) == [some |-> TRUE, ptr |-> p]

\* x.as_ref().map(|x| x.as_ptr()).unwrap_or(ptr::null())
as_ptr_or_null(x) == IF x.some THEN x.ptr ELSE NULL

NoValue == [kind |-> "None"]

Context(raw, ini_filename, log_filename, platform_name, renderer_name) ==
    [kind |-> "Context",
     raw |-> raw,
     ini_filename |-> ini_filename,
     log_filename |-> log_filename,
     platform_name |-> platform_name,
     renderer_name |-> renderer_name]

\* pub struct SuspendedContext(Context)
SuspendedContext(ctx) == [kind |-> "SuspendedContext", ctx |-> ctx]

\* the Context a value owns, directly or wrapped
Inner(v) == IF v.kind = "SuspendedContext" THEN v.ctx ELSE v

IsContext(v) == v.kind = "Context"
IsSuspended(v) == v.kind = "SuspendedContext"
IsValue(v) == v.kind # "None"

\* ----------------------------------------------------------- the engine
IoFields == {"IniFilename", "LogFilename", "BackendPlatformName", "BackendRendererName"}

FreeCell == [live |-> FALSE, id |-> 0, io |-> [f \in IoFields |-> NULL], settings |-> <<>>]

\* sys::igGetCurrentContext()
igGetCurrentContext(e) == e.cur

\* sys::igSetCurrentContext(p): overwrites the current-context pointer
igSetCurrentContext(e, p) == [e EXCEPT !.cur = p]

\* sys::igCreateContext(null): a new instance at address h; it becomes the
\* current context when there was none
igCreateContext(e, h) ==
    [e EXCEPT !.ctx[h] = [live |-> TRUE, id |-> e.created + 1, io |-> e.ioInit,
                             settings |-> <<>>],
              !.created = @ + 1,
              !.cur = IF @ = NULL THEN h ELSE @]

\* sys::igDestroyContext(raw): frees the instance at raw; clears the
\* current-context pointer when it named that instance. Called on an address
\* that holds no instance it is a double free
igDestroyContext(e, raw) ==
    IF e.ctx[raw].live
    THEN [e EXCEPT !.ctx[raw] = FreeCell,
                   !.destroyed[e.ctx[raw].id] = @ + 1,
                   !.cur = IF @ = raw THEN NULL ELSE @]
    ELSE [e EXCEPT !.doubleFree = TRUE]

\* ------------------------------------------------------ private helpers
clear_current_context(e) == igSetCurrentContext(e, NULL)

no_current_context(e) == igGetCurrentContext(e) = NULL

is_current_context(self, e) == self.raw = igGetCurrentContext(e)

\* ------------------------------------------------------- ImString buffers
\* the buffer of a dropped Option<ImString> is freed
free(strs, x) == IF x.some THEN [strs EXCEPT ![x.ptr].live = FALSE] ELSE strs

\* the IO block of self's engine instance: self.io() / self.io_mut()
io(e, self) == e.ctx[self.raw].io

io_mut(e, self, field, p) == [e EXCEPT !.ctx[self.raw].io[field] = p]

\* ------------------------------------------------------------- handlers
\* A handler takes the memory w = [engine, strings] it runs on and returns
\* the memory it leaves, with the value it returns.

\* drop that also clears the current context, whatever it is
drop_clears(e, self) == clear_current_context(igDestroyContext(e, self.raw))

\* impl Drop for Context: fn drop(&mut self)
drop(e, self) == igDestroyContext(e, self.raw)

\* a Context or SuspendedContext value going out of scope: Drop::drop runs,
\* then the four fields are dropped
drop_in_place(w, v) ==
    LET c == Inner(v)
    IN  [engine |-> drop(w.engine, c),
         strings |-> free(free(free(free(w.strings, c.ini_filename),
                                    c.log_filename),
                               c.platform_name),
                          c.renderer_name)]

\* create_internal without its assertion
Context_create_internal_no_assert(w, h) ==
    [panic |-> FALSE, engine |-> igCreateContext(w.engine, h),
     strings |-> w.strings, value |-> Context(h, None, None, None, None)]

\* Context::create_internal, with h the address igCreateContext returns
Context_create_internal(w, h) ==
    IF ~no_current_context(w.engine)
    THEN [panic |-> TRUE, engine |-> w.engine, strings |-> w.strings,
          value |-> NoValue]
    ELSE [panic |-> FALSE, engine |-> igCreateContext(w.engine, h),
          strings |-> w.strings,
          value |-> Context(h, None, None, None, None)]

\* Context::create
Context_create(w, h) == Context_create_internal(w, h)

\* suspend whose failed assertion leaves self undestroyed
suspend_leak_on_panic(w, self) ==
    IF ~is_current_context(self, w.engine)
    THEN [panic |-> TRUE, engine |-> w.engine, strings |-> w.strings,
          value |-> NoValue]
    ELSE [panic |-> FALSE, engine |-> clear_current_context(w.engine),
          strings |-> w.strings, value |-> SuspendedContext(self)]

\* suspend that forgets clear_current_context()
suspend_no_clear(w, self) ==
    IF ~is_current_context(self, w.engine)
    THEN LET d == drop_in_place(w, self)
         IN  [panic |-> TRUE, engine |-> d.engine, strings |-> d.strings,
              value |-> NoValue]
    ELSE [panic |-> FALSE, engine |-> w.engine,
          strings |-> w.strings, value |-> SuspendedContext(self)]

\* suspend that wraps a new Context of the same handle, its fields absent
suspend_rebuilds(w, self) ==
    IF ~is_current_context(self, w.engine)
    THEN LET d == drop_in_place(w, self)
         IN  [panic |-> TRUE, engine |-> d.engine, strings |-> d.strings,
              value |-> NoValue]
    ELSE [panic |-> FALSE, engine |-> clear_current_context(w.engine),
          strings |-> w.strings,
          value |-> SuspendedContext(Context(self.raw, None, None, None, None))]

\* Context::suspend(self); a failed assertion unwinds and drops self
suspend(w, self) ==
    IF ~is_current_context(self, w.engine)
    THEN LET d == drop_in_place(w, self)
         IN  [panic |-> TRUE, engine |-> d.engine, strings |-> d.strings,
              value |-> NoValue]
    ELSE [panic |-> FALSE, engine |-> clear_current_context(w.engine),
          strings |-> w.strings, value |-> SuspendedContext(self)]

\* activate without the no_current_context() check
activate_unchecked(w, self) ==
    [ok |-> TRUE, engine |-> igSetCurrentContext(w.engine, self.ctx.raw),
     strings |-> w.strings, value |-> self.ctx]

\* activate that returns Ok without igSetCurrentContext
activate_no_set(w, self) ==
    IF no_current_context(w.engine)
    THEN [ok |-> TRUE, engine |-> w.engine, strings |-> w.strings,
          value |-> self.ctx]
    ELSE [ok |-> FALSE, engine |-> w.engine, strings |-> w.strings,
          value |-> self]

\* activate that clears the current context when it fails
activate_err_clears(w, self) ==
    IF no_current_context(w.engine)
    THEN [ok |-> TRUE, engine |-> igSetCurrentContext(w.engine, self.ctx.raw),
          strings |-> w.strings, value |-> self.ctx]
    ELSE [ok |-> FALSE, engine |-> clear_current_context(w.engine),
          strings |-> w.strings, value |-> self]

\* activate that destroys the instance when it fails
activate_err_destroys(w, self) ==
    IF no_current_context(w.engine)
    THEN [ok |-> TRUE, engine |-> igSetCurrentContext(w.engine, self.ctx.raw),
          strings |-> w.strings, value |-> self.ctx]
    ELSE [ok |-> FALSE, engine |-> drop(w.engine, self.ctx), strings |-> w.strings,
          value |-> self]

\* SuspendedContext::activate(self)
activate(w, self) ==
    IF no_current_context(w.engine)
    THEN [ok |-> TRUE, engine |-> igSetCurrentContext(w.engine, self.ctx.raw),
          strings |-> w.strings, value |-> self.ctx]
    ELSE [ok |-> FALSE, engine |-> w.engine, strings |-> w.strings,
          value |-> self]

\* create_internal that leaves the new instance current
SuspendedContext_create_internal_no_deactivate(w, h) ==
    [engine |-> igCreateContext(w.engine, h), strings |-> w.strings,
     value |-> SuspendedContext(Context(h, None, None, None, None))]

\* create_internal that clears the current context whatever it is
SuspendedContext_create_internal_always_clear(w, h) ==
    [engine |-> clear_current_context(igCreateContext(w.engine, h)),
     strings |-> w.strings,
     value |-> SuspendedContext(Context(h, None, None, None, None))]

\* SuspendedContext::create_internal, with h the address igCreateContext returns
SuspendedContext_create_internal(w, h) ==
    LET e1 == igCreateContext(w.engine, h)
        ctx == Context(h, None, None, None, None)
        e2 == IF is_current_context(ctx, e1) THEN clear_current_context(e1) ELSE e1
    IN  [engine |-> e2, strings |-> w.strings, value |-> SuspendedContext(ctx)]

\* SuspendedContext::create
SuspendedContext_create(w, h) == SuspendedContext_create_internal(w, h)

\* Context::set_ini_filename(&mut self, x)
set_ini_filename(w, self, x) ==
    [engine |-> io_mut(w.engine, self, "IniFilename", as_ptr_or_null(x)),
     strings |-> free(w.strings, self.ini_filename),
     value |-> [self EXCEPT !.ini_filename = x]]

\* Context::set_log_filename(&mut self, x)
set_log_filename(w, self, x) ==
    [engine |-> io_mut(w.engine, self, "LogFilename", as_ptr_or_null(x)),
     strings |-> free(w.strings, self.log_filename),
     value |-> [self EXCEPT !.log_filename = x]]

\* Context::set_platform_name(&mut self, x)
set_platform_name(w, self, x) ==
    [engine |-> io_mut(w.engine, self, "BackendPlatformName", as_ptr_or_null(x)),
     strings |-> free(w.strings, self.platform_name),
     value |-> [self EXCEPT !.platform_name = x]]

\* Context::set_renderer_name(&mut self, x)
set_renderer_name(w, self, x) ==
    [engine |-> io_mut(w.engine, self, "BackendRendererName", as_ptr_or_null(x)),
     strings |-> free(w.strings, self.renderer_name),
     value |-> [self EXCEPT !.renderer_name = x]]

\* ---------------------------------------------------------------- state
\* the threads of the program
Threads == {"t1", "t2"}

NoThread == "none"

IdleThread == [op |-> "none", pc |-> "idle", slot |-> 0, h |-> NULL]

NoCall == [t |-> NoThread, op |-> "none", prim |-> "none", arg |-> NULL,
           held |-> TRUE, live |-> TRUE]

\* what the engine may put in the IO block of a new instance: its own
\* static strings, or nothing
IoDefaults == {[f \in IoFields |-> NULL], [f \in IoFields |-> EngineStatic]}

\* the variable a new value is bound to: the first one that holds nothing
\* (0 when every variable holds a value)
NewSlot ==
    IF \E s \in Slots : vals[s] = NoValue
    THEN CHOOSE s \in Slots : vals[s] = NoValue /\ \A t \in Slots : t < s => vals[t] # NoValue
    ELSE 0

\* the address the allocator returns for a new instance: the lowest free one,
\* so that an address is used again as soon as it is free (NULL when the run
\* has used up its addresses or its creations)
NewAddress ==
    IF engine.created < MaxCreates /\ \E h \in Handles : ~engine.ctx[h].live
    THEN CHOOSE h \in Handles : ~engine.ctx[h].live
                                /\ \A g \in Handles : g < h => engine.ctx[g].live
    ELSE NULL

World == [engine |-> engine, strings |-> strings]

Init ==
    /\ \E d \in IoDefaults :
          engine = [cur |-> NULL,
                    ctx |-> [h \in Handles |-> FreeCell],
                    ioInit |-> d,
                    created |-> 0,
                    doubleFree |-> FALSE,
                    destroyed |-> [i \in InstIds |-> 0]]
    /\ strings = << >>
    /\ nsets = 0
    /\ vals = [s \in Slots |-> NoValue]
    /\ last = [op |-> "none", slot |-> 0, result |-> "none", raw |-> NULL]
    /\ gate = [owner |-> NoThread, count |-> 0]
    /\ th = [t \in Threads |-> IdleThread]
    /\ ecall = NoCall
    /\ failed = {}
    /\ own = [s \in Slots |-> NoThread]

\* let s = Context::create();
CallContextCreate ==
    LET s == NewSlot
        h == NewAddress
        r == Context_create(World, h)
    IN  /\ no_current_context(engine) => (s # 0 /\ h # NULL)
        /\ engine' = r.engine
        /\ strings' = r.strings
        /\ UNCHANGED nsets
        /\ vals' = IF r.panic THEN vals ELSE [vals EXCEPT ![s] = r.value]
        /\ last' = IF r.panic
                   THEN [op |-> "Context::create", slot |-> 0,
                         result |-> "panic", raw |-> NULL]
                   ELSE [op |-> "Context::create", slot |-> s,
                         result |-> "Ok", raw |-> h]

\* let s = SuspendedContext::create();
CallSuspendedContextCreate ==
    LET s == NewSlot
        h == NewAddress
        r == SuspendedContext_create(World, h)
    IN  /\ s # 0
        /\ h # NULL
        /\ engine' = r.engine
        /\ strings' = r.strings
        /\ UNCHANGED nsets
        /\ vals' = [vals EXCEPT ![s] = r.value]
        /\ last' = [op |-> "SuspendedContext::create", slot |-> s,
                    result |-> "Ok", raw |-> h]

\* let s = s.suspend();
CallSuspend ==
    \E s \in Slots :
        /\ IsContext(vals[s])
        /\ UNCHANGED nsets
        /\ LET r == suspend(World, vals[s])
           IN  /\ engine' = r.engine
               /\ strings' = r.strings
               /\ vals' = [vals EXCEPT ![s] = r.value]
               /\ last' = [op |-> "suspend", slot |-> s,
                           result |-> IF r.panic THEN "panic" ELSE "Ok",
                           raw |-> vals[s].raw]

\* let s = match s.activate() { Ok(ctx) => ctx, Err(suspended) => suspended };
CallActivate ==
    \E s \in Slots :
        /\ IsSuspended(vals[s])
        /\ UNCHANGED nsets
        /\ LET r == activate(World, vals[s])
           IN  /\ engine' = r.engine
               /\ strings' = r.strings
               /\ vals' = [vals EXCEPT ![s] = r.value]
               /\ last' = [op |-> "activate", slot |-> s,
                           result |-> IF r.ok THEN "Ok" ELSE "Err",
                           raw |-> vals[s].ctx.raw]

\* drop(s);
CallDrop ==
    \E s \in Slots :
        /\ IsValue(vals[s])
        /\ UNCHANGED nsets
        /\ LET r == drop_in_place(World, vals[s])
           IN  /\ engine' = r.engine
               /\ strings' = r.strings
               /\ vals' = [vals EXCEPT ![s] = NoValue]
               /\ last' = [op |-> IF IsContext(vals[s]) THEN "drop Context"
                                  ELSE "drop SuspendedContext",
                           slot |-> s, result |-> "Ok",
                           raw |-> Inner(vals[s]).raw]

\* the values a caller can hand to a setter: None, or Some(ImString::new(t)),
\* whose buffer is then the next one allocated
SetterArgs == {[x |-> None, strings |-> strings]}
              \cup {[x |-> Some(Len(strings) + 1),
                     strings |-> Append(strings, [live |-> TRUE, text |-> t])]
                    : t \in Texts}

\* s.set_ini_filename(x);
CallSetIniFilename ==
    \E s \in Slots, a \in SetterArgs :
        /\ IsContext(vals[s])
        /\ nsets < MaxSets
        /\ nsets' = nsets + 1
        /\ LET r == set_ini_filename([engine |-> engine, strings |-> a.strings],
                                     vals[s], a.x)
           IN  /\ engine' = r.engine
               /\ strings' = r.strings
               /\ vals' = [vals EXCEPT ![s] = r.value]
               /\ last' = [op |-> "set_ini_filename", slot |-> s,
                           result |-> "Ok", raw |-> vals[s].raw]

\* s.set_log_filename(x);
CallSetLogFilename ==
    \E s \in Slots, a \in SetterArgs :
        /\ IsContext(vals[s])
        /\ nsets < MaxSets
        /\ nsets' = nsets + 1
        /\ LET r == set_log_filename([engine |-> engine, strings |-> a.strings],
                                     vals[s], a.x)
           IN  /\ engine' = r.engine
               /\ strings' = r.strings
               /\ vals' = [vals EXCEPT ![s] = r.value]
               /\ last' = [op |-> "set_log_filename", slot |-> s,
                           result |-> "Ok", raw |-> vals[s].raw]

\* s.set_platform_name(x);
CallSetPlatformName ==
    \E s \in Slots, a \in SetterArgs :
        /\ IsContext(vals[s])
        /\ nsets < MaxSets
        /\ nsets' = nsets + 1
        /\ LET r == set_platform_name([engine |-> engine, strings |-> a.strings],
                                      vals[s], a.x)
           IN  /\ engine' = r.engine
               /\ strings' = r.strings
               /\ vals' = [vals EXCEPT ![s] = r.value]
               /\ last' = [op |-> "set_platform_name", slot |-> s,
                           result |-> "Ok", raw |-> vals[s].raw]

\* s.set_renderer_name(x);
CallSetRendererName ==
    \E s \in Slots, a \in SetterArgs :
        /\ IsContext(vals[s])
        /\ nsets < MaxSets
        /\ nsets' = nsets + 1
        /\ LET r == set_renderer_name([engine |-> engine, strings |-> a.strings],
                                      vals[s], a.x)
           IN  /\ engine' = r.engine
               /\ strings' = r.strings
               /\ vals' = [vals EXCEPT ![s] = r.value]
               /\ last' = [op |-> "set_renderer_name", slot |-> s,
                           result |-> "Ok", raw |-> vals[s].raw]

\* one thread running each operation to its end: the gate is free between
\* the operations and no thread is inside one
Sequential == UNCHANGED <<gate, th, ecall, failed, own>>

\* creation, suspension, activation and destruction
Lifecycle ==
    \/ CallContextCreate /\ Sequential
    \/ CallSuspendedContextCreate /\ Sequential
    \/ CallSuspend /\ Sequential
    \/ CallActivate /\ Sequential
    \/ CallDrop /\ Sequential

Next ==
    \/ Lifecycle
    \/ CallSetIniFilename /\ Sequential
    \/ CallSetLogFilename /\ Sequential
    \/ CallSetPlatformName /\ Sequential
    \/ CallSetRendererName /\ Sequential

Spec == Init /\ [][Next]_vars

\* code outside this API calls sys::igSetCurrentContext(p) itself, with null
\* or the address of an instance
ExternalSetCurrentContext ==
    \E p \in {NULL} \cup {h \in Handles : engine.ctx[h].live} :
        /\ p # engine.cur
        /\ engine' = igSetCurrentContext(engine, p)
        /\ UNCHANGED <<strings, vals, nsets>>
        /\ last' = [op |-> "external igSetCurrentContext", slot |-> 0,
                    result |-> "Ok", raw |-> p]

NextExt == Lifecycle \/ (ExternalSetCurrentContext /\ Sequential)

\* creation, suspension, activation and destruction, with the
\* current-context pointer also changed from outside them
SpecExt == Init /\ [][NextExt]_vars

\* ------------------------------------------------- activate and retry
\* The record of the activations that failed: failed holds, for each variable
\* whose activate returned Err, the instance of the value that came back,
\* and whether an activate of it has succeeded since.
Retrying ==
    /\ failed' =
          LET s == last'.slot
              kept == {f \in failed : f.slot # s}
              then == {f \in failed : f.slot = s}
          IN  IF last'.op = "activate" /\ last'.result = "Err"
              THEN kept \cup {[slot |-> s, id |-> engine.ctx[last'.raw].id, retried |-> FALSE]}
              ELSE IF last'.op = "activate"
              THEN kept \cup {[f EXCEPT !.retried = TRUE] : f \in then}
              ELSE IF last'.op \in {"suspend", "drop Context", "drop SuspendedContext"}
              THEN kept
              ELSE failed
    /\ UNCHANGED <<gate, th, ecall, own>>

NextRetry ==
    \/ CallContextCreate /\ Retrying
    \/ CallSuspendedContextCreate /\ Retrying
    \/ CallSuspend /\ Retrying
    \/ CallActivate /\ Retrying
    \/ CallDrop /\ Retrying

\* the lifecycle operations, with the record of the activations that failed
SpecRetry == Init /\ [][NextRetry]_vars

\* ------------------------------------------------------- settings text
\* Settings text is a sequence of lines: the header line of a section, a
\* blank line, or a line the engine cannot parse.
MaxLines == 2
Sections == {"[A]", "[B]"}
Blank == ""
Malformed == "?"
IniLines == Sections \cup {Blank, Malformed}
IniTexts == UNION {[1 .. n -> IniLines] : n \in 0 .. MaxLines}

\* the buffers a caller hands to save_ini_settings
Buffers == {<<>>, <<Malformed>>}

RECURSIVE trim_start(_)
trim_start(text) ==
    IF text # <<>> /\ Head(text) = Blank THEN trim_start(Tail(text)) ELSE text

RECURSIVE trim_end(_)
trim_end(text) ==
    IF text # <<>> /\ text[Len(text)] = Blank
    THEN trim_end(SubSeq(text, 1, Len(text) - 1))
    ELSE text

\* str::trim: the text without its leading and trailing whitespace
trim(text) == trim_end(trim_start(text))

\* the engine's parser: a section it does not hold yet is added after the
\* ones it holds, anything that is not a section is skipped
RECURSIVE LoadLines(_, _)
LoadLines(settings, lines) ==
    IF lines = <<>> THEN settings
    ELSE LoadLines(IF Head(lines) \in Sections
                      /\ \A i \in 1 .. Len(settings) : settings[i] # Head(lines)
                   THEN Append(settings, Head(lines))
                   ELSE settings,
                   Tail(lines))

\* the engine's writer: every section it holds, each followed by a blank line
RECURSIVE WriteLines(_)
WriteLines(settings) ==
    IF settings = <<>> THEN <<>>
    ELSE <<Head(settings), Blank>> \o WriteLines(Tail(settings))

\* sys::igLoadIniSettingsFromMemory(ini_data, ini_size), on the current context
igLoadIniSettingsFromMemory(e, ini_data, ini_size) ==
    [e EXCEPT !.ctx[e.cur].settings = LoadLines(@, SubSeq(ini_data, 1, ini_size))]

\* sys::igSaveIniSettingsToMemory(null): the text of the current context's
\* settings, in a buffer the engine owns
igSaveIniSettingsToMemory(e) == WriteLines(e.ctx[e.cur].settings)

\* CStr::to_string_lossy: what is not valid text becomes U+FFFD
to_string_lossy(bytes) ==
    [i \in 1 .. Len(bytes) |-> IF bytes[i] \in IniLines THEN bytes[i] ELSE "U+FFFD"]

\* load_ini_settings passing a length one short of the data
load_ini_settings_short(e, data) == igLoadIniSettingsFromMemory(e, data, Len(data) - 1)

\* Context::load_ini_settings(&mut self, data)
load_ini_settings(e, data) == igLoadIniSettingsFromMemory(e, data, Len(data))

\* Context::save_ini_settings(&mut self, buf): buf after the call
save_ini_settings(e, buf) == buf \o to_string_lossy(igSaveIniSettingsToMemory(e))

\* ------------------------------------------------- the operations, by step
\* The same operations, one step for each acquisition of CTX_MUTEX and for
\* each call across the engine boundary, run by several threads.
\* m = [engine, strings, vals, last, gate, ecall, own] is the memory a step runs
\* on, x = [op, pc, slot] the position of the thread t that takes it.

\* CTX_MUTEX.lock() that does not take the mutex
CTX_MUTEX_lock_noop(g, t) == g

\* CTX_MUTEX.lock() by thread t, once t can have it (it is reentrant)
CTX_MUTEX_lock(g, t) == [owner |-> t, count |-> g.count + 1]

\* a lock() that never blocks
CanLock_always(g, t) == TRUE

\* lock() blocks while another thread holds the mutex
CanLock(g, t) == g.owner \in {NoThread, t}

\* the guard _guard going out of scope
drop_guard(g, t) ==
    IF g.owner # t THEN g
    ELSE IF g.count = 1 THEN [owner |-> NoThread, count |-> 0]
    ELSE [g EXCEPT !.count = @ - 1]

\* the record of thread t, inside op, calling prim(arg) across the boundary
Called(m, t, op, prim, arg) ==
    [t |-> t, op |-> op, prim |-> prim, arg |-> arg,
     held |-> m.gate.owner = t,
     live |-> arg = NULL \/ (arg \in Handles /\ m.engine.ctx[arg].live)]

Returned(op, slot, result, raw) ==
    [op |-> op, slot |-> slot, result |-> result, raw |-> raw]

\* Context::create_internal; h is the address igCreateContext returns and s
\* the variable the new Context is bound to
Context_create_step(m, t, x, h, s) ==
    IF x.pc = "assert"
    THEN LET m1 == [m EXCEPT !.ecall = Called(m, t, x.op, "igGetCurrentContext", NULL)]
         IN  IF no_current_context(m.engine)
             THEN [m |-> m1, x |-> [x EXCEPT !.pc = "create"]]
             ELSE [m |-> [m1 EXCEPT !.gate = drop_guard(m.gate, t),
                                    !.last = Returned(x.op, 0, "panic", NULL)],
                   x |-> IdleThread]
    ELSE [m |-> [m EXCEPT !.ecall = Called(m, t, x.op, "igCreateContext", NULL),
                          !.engine = igCreateContext(m.engine, h),
                          !.vals[s] = Context(h, None, None, None, None),
                          !.own[s] = t,
                          !.gate = drop_guard(m.gate, t),
                          !.last = Returned(x.op, s, "Ok", h)],
          x |-> IdleThread]

\* SuspendedContext::create_internal that clears the current context whatever
\* it is
SuspendedContext_create_step_always_clear(m, t, x, h, s) ==
    LET done(m1, raw) ==
            [m |-> [m1 EXCEPT !.vals[s] = SuspendedContext(Context(raw, None, None, None, None)),
                              !.own[s] = t,
                              !.gate = drop_guard(m.gate, t),
                              !.last = Returned(x.op, s, "Ok", raw)],
             x |-> IdleThread]
    IN  IF x.pc = "create"
        THEN [m |-> [m EXCEPT !.ecall = Called(m, t, x.op, "igCreateContext", NULL),
                              !.engine = igCreateContext(m.engine, h)],
              x |-> [x EXCEPT !.pc = "check", !.h = h]]
        ELSE IF x.pc = "check"
        THEN LET m1 == [m EXCEPT !.ecall = Called(m, t, x.op, "igGetCurrentContext", NULL)]
             IN  IF TRUE
                 THEN [m |-> m1, x |-> [x EXCEPT !.pc = "clear"]]
                 ELSE done(m1, x.h)
        ELSE done([m EXCEPT !.ecall = Called(m, t, x.op, "igSetCurrentContext", NULL),
                            !.engine = clear_current_context(m.engine)],
                  x.h)

\* SuspendedContext::create_internal
SuspendedContext_create_step(m, t, x, h, s) ==
    LET done(m1, raw) ==
            [m |-> [m1 EXCEPT !.vals[s] = SuspendedContext(Context(raw, None, None, None, None)),
                              !.own[s] = t,
                              !.gate = drop_guard(m.gate, t),
                              !.last = Returned(x.op, s, "Ok", raw)],
             x |-> IdleThread]
    IN  IF x.pc = "create"
        THEN [m |-> [m EXCEPT !.ecall = Called(m, t, x.op, "igCreateContext", NULL),
                              !.engine = igCreateContext(m.engine, h)],
              x |-> [x EXCEPT !.pc = "check", !.h = h]]
        ELSE IF x.pc = "check"
        THEN LET m1 == [m EXCEPT !.ecall = Called(m, t, x.op, "igGetCurrentContext", NULL)]
             IN  IF x.h = igGetCurrentContext(m.engine)
                 THEN [m |-> m1, x |-> [x EXCEPT !.pc = "clear"]]
                 ELSE done(m1, x.h)
        ELSE done([m EXCEPT !.ecall = Called(m, t, x.op, "igSetCurrentContext", NULL),
                            !.engine = clear_current_context(m.engine)],
                  x.h)

\* a drop that destroys the instance again when the fields are dropped
drop_step_destroys_twice(m, t, x) ==
    LET c == Inner(m.vals[x.slot])
    IN  IF x.pc = "lock"
        THEN [m |-> [m EXCEPT !.gate = CTX_MUTEX_lock(m.gate, t)],
              x |-> [x EXCEPT !.pc = "destroy"]]
        ELSE IF x.pc = "destroy"
        THEN [m |-> [m EXCEPT !.ecall = Called(m, t, x.op, "igDestroyContext", c.raw),
                              !.engine = drop(m.engine, c),
                              !.gate = drop_guard(m.gate, t)],
              x |-> [x EXCEPT !.pc = "fields"]]
        ELSE [m |-> [m EXCEPT !.ecall = Called(m, t, x.op, "igDestroyContext", c.raw),
                              !.engine = drop(m.engine, c),
                              !.strings = free(free(free(free(m.strings, c.ini_filename),
                                                         c.log_filename),
                                                    c.platform_name),
                                               c.renderer_name),
                              !.vals[x.slot] = NoValue,
                              !.own[x.slot] = NoThread,
                              !.last = IF x.op = "suspend"
                                       THEN Returned(x.op, x.slot, "panic", c.raw)
                                       ELSE Returned(IF IsContext(m.vals[x.slot])
                                                     THEN "drop Context"
                                                     ELSE "drop SuspendedContext",
                                                     x.slot, "Ok", c.raw)],
              x |-> IdleThread]

\* a drop that frees the four buffers before it destroys the instance
drop_step_fields_first(m, t, x) ==
    LET c == Inner(m.vals[x.slot])
    IN  IF x.pc = "lock"
        THEN [m |-> [m EXCEPT !.gate = CTX_MUTEX_lock(m.gate, t)],
              x |-> [x EXCEPT !.pc = "destroy"]]
        ELSE IF x.pc = "destroy"
        THEN [m |-> [m EXCEPT !.strings = free(free(free(free(m.strings, c.ini_filename),
                                                         c.log_filename),
                                                    c.platform_name),
                                               c.renderer_name)],
              x |-> [x EXCEPT !.pc = "fields"]]
        ELSE [m |-> [m EXCEPT !.ecall = Called(m, t, x.op, "igDestroyContext", c.raw),
                              !.engine = drop(m.engine, c),
                              !.gate = drop_guard(m.gate, t),
                              !.vals[x.slot] = NoValue,
                              !.own[x.slot] = NoThread,
                              !.last = Returned(IF IsContext(m.vals[x.slot])
                                                THEN "drop Context"
                                                ELSE "drop SuspendedContext",
                                                x.slot, "Ok", c.raw)],
              x |-> IdleThread]

\* impl Drop for Context, then the fields: the value of variable x.slot
\* going out of scope
drop_step(m, t, x) ==
    LET c == Inner(m.vals[x.slot])
    IN  IF x.pc = "lock"
        THEN [m |-> [m EXCEPT !.gate = CTX_MUTEX_lock(m.gate, t)],
              x |-> [x EXCEPT !.pc = "destroy"]]
        ELSE IF x.pc = "destroy"
        THEN [m |-> [m EXCEPT !.ecall = Called(m, t, x.op, "igDestroyContext", c.raw),
                              !.engine = drop(m.engine, c),
                              !.gate = drop_guard(m.gate, t)],
              x |-> [x EXCEPT !.pc = "fields"]]
        ELSE [m |-> [m EXCEPT !.strings = free(free(free(free(m.strings, c.ini_filename),
                                                         c.log_filename),
                                                    c.platform_name),
                                               c.renderer_name),
                              !.vals[x.slot] = NoValue,
                              !.own[x.slot] = NoThread,
                              !.last = IF x.op = "suspend"
                                       THEN Returned(x.op, x.slot, "panic", c.raw)
                                       ELSE Returned(IF IsContext(m.vals[x.slot])
                                                     THEN "drop Context"
                                                     ELSE "drop SuspendedContext",
                                                     x.slot, "Ok", c.raw)],
              x |-> IdleThread]

\* Context::suspend(self), self being the value of variable x.slot
suspend_step(m, t, x) ==
    LET self == m.vals[x.slot]
    IN  IF x.pc = "assert"
        THEN LET m1 == [m EXCEPT !.ecall = Called(m, t, x.op, "igGetCurrentContext", NULL)]
             IN  IF is_current_context(self, m.engine)
                 THEN [m |-> m1, x |-> [x EXCEPT !.pc = "clear"]]
                 ELSE [m |-> [m1 EXCEPT !.gate = drop_guard(m.gate, t)],
                       x |-> [x EXCEPT !.pc = "lock"]]
        ELSE IF x.pc = "clear"
        THEN [m |-> [m EXCEPT !.ecall = Called(m, t, x.op, "igSetCurrentContext", NULL),
                              !.engine = clear_current_context(m.engine),
                              !.vals[x.slot] = SuspendedContext(self),
                              !.gate = drop_guard(m.gate, t),
                              !.last = Returned(x.op, x.slot, "Ok", self.raw)],
              x |-> IdleThread]
        ELSE drop_step(m, t, x)

\* SuspendedContext::activate(self), self being the value of variable x.slot
activate_step(m, t, x) ==
    LET self == m.vals[x.slot]
    IN  IF x.pc = "check"
        THEN LET m1 == [m EXCEPT !.ecall = Called(m, t, x.op, "igGetCurrentContext", NULL)]
             IN  IF no_current_context(m.engine)
                 THEN [m |-> m1, x |-> [x EXCEPT !.pc = "set"]]
                 ELSE [m |-> [m1 EXCEPT !.gate = drop_guard(m.gate, t),
                                        !.last = Returned(x.op, x.slot, "Err", self.ctx.raw)],
                       x |-> IdleThread]
        ELSE [m |-> [m EXCEPT !.ecall = Called(m, t, x.op, "igSetCurrentContext", self.ctx.raw),
                              !.engine = igSetCurrentContext(m.engine, self.ctx.raw),
                              !.vals[x.slot] = self.ctx,
                              !.gate = drop_guard(m.gate, t),
                              !.last = Returned(x.op, x.slot, "Ok", self.ctx.raw)],
              x |-> IdleThread]

SetterOps == {"set_ini_filename", "set_log_filename", "set_platform_name", "set_renderer_name"}

\* the field of Context a setter assigns
FieldOf(op) ==
    CASE op = "set_ini_filename" -> "ini_filename"
      [] op = "set_log_filename" -> "log_filename"
      [] op = "set_platform_name" -> "platform_name"
      [] op = "set_renderer_name" -> "renderer_name"

\* the pointer of the engine's IO a field of Context backs
IoFieldOf(field) ==
    CASE field = "ini_filename" -> "IniFilename"
      [] field = "log_filename" -> "LogFilename"
      [] field = "platform_name" -> "BackendPlatformName"
      [] field = "renderer_name" -> "BackendRendererName"

\* what a getter returns
NoText == [some |-> FALSE, text |-> ""]
SomeText(text) == [some |-> TRUE, text |-> text]

\* the text of the string the engine owns
EngineText == "engine"

\* Context::ini_filename(&self) and the three other getters: the results the
\* call can have. The text is read through the engine's pointer; read from a
\* freed buffer it is whatever that memory holds
getter(e, strs, self, field) ==
    LET p == io(e, self)[IoFieldOf(field)]
    IN  IF p = NULL THEN {NoText}
        ELSE IF p = EngineStatic THEN {SomeText(EngineText)}
        ELSE IF strs[p].live THEN {SomeText(strs[p].text)}
        ELSE {SomeText(text) : text \in Texts \cup {EngineText}}

\* the argument a thread inside a setter holds: x.h is its pointer
Argument(x) == IF x.h = NULL THEN None ELSE Some(x.h)

\* the setters with the two statements in the other order
setter_step_field_first(m, t, x) ==
    LET self == m.vals[x.slot]
        field == FieldOf(x.op)
    IN  IF x.pc = "ptr"
        THEN [m |-> [m EXCEPT !.strings = free(m.strings, self[field]),
                              !.vals[x.slot][field] = Argument(x)],
              x |-> [x EXCEPT !.pc = "assign"]]
        ELSE [m |-> [m EXCEPT !.engine = io_mut(m.engine, self, IoFieldOf(field),
                                                as_ptr_or_null(Argument(x))),
                              !.last = Returned(x.op, x.slot, "Ok", self.raw)],
              x |-> IdleThread]

\* the setters in the order of their two statements, self being the value of
\* variable x.slot: the pointer first, then the field
setter_step(m, t, x) ==
    LET self == m.vals[x.slot]
        field == FieldOf(x.op)
    IN  IF x.pc = "ptr"
        THEN [m |-> [m EXCEPT !.engine = io_mut(m.engine, self, IoFieldOf(field),
                                                as_ptr_or_null(Argument(x)))],
              x |-> [x EXCEPT !.pc = "assign"]]
        ELSE [m |-> [m EXCEPT !.strings = free(m.strings, self[field]),
                              !.vals[x.slot][field] = Argument(x),
                              !.last = Returned(x.op, x.slot, "Ok", self.raw)],
              x |-> IdleThread]

\* the next step of thread t inside the operation it is running
step(m, t, x, h, s) ==
    CASE x.op = "Context::create" -> Context_create_step(m, t, x, h, s)
      [] x.op = "SuspendedContext::create" -> SuspendedContext_create_step(m, t, x, h, s)
      [] x.op = "suspend" -> suspend_step(m, t, x)
      [] x.op = "activate" -> activate_step(m, t, x)
      [] x.op = "drop" -> drop_step(m, t, x)
      [] x.op \in SetterOps -> setter_step(m, t, x)

Memory == [engine |-> engine, strings |-> strings, vals |-> vals,
           last |-> last, gate |-> gate, ecall |-> ecall, own |-> own]

\* variable s holds a value of thread t that t is not inside an operation on
Usable(t, s) == own[s] = t /\ th[t].slot # s

\* the variable a thread binds a new value to
FreshSlot ==
    IF \E s \in Slots : vals[s] = NoValue
    THEN CHOOSE s \in Slots : vals[s] = NoValue /\ \A u \in Slots : u < s => vals[u] # NoValue
    ELSE 0

LifecycleOps == {"Context::create", "SuspendedContext::create", "suspend", "activate", "drop"}

\* thread t calls one of the operations ops: its first statement takes CTX_MUTEX
Begin(t, ops) ==
    /\ th[t].pc = "idle"
    /\ CanLock(gate, t)
    /\ gate' = CTX_MUTEX_lock(gate, t)
    /\ \E x \in
          (IF no_current_context(engine) => NewAddress # NULL
           THEN {[op |-> "Context::create", pc |-> "assert", slot |-> 0, h |-> NULL]}
           ELSE {})
          \cup (IF NewAddress # NULL
                THEN {[op |-> "SuspendedContext::create", pc |-> "create", slot |-> 0, h |-> NULL]}
                ELSE {})
          \cup {[op |-> "suspend", pc |-> "assert", slot |-> s, h |-> NULL] :
                  s \in {s \in Slots : IsContext(vals[s]) /\ Usable(t, s)}}
          \cup {[op |-> "activate", pc |-> "check", slot |-> s, h |-> NULL] :
                  s \in {s \in Slots : IsSuspended(vals[s]) /\ Usable(t, s)}}
          \cup {[op |-> "drop", pc |-> "destroy", slot |-> s, h |-> NULL] :
                  s \in {s \in Slots : IsValue(vals[s]) /\ Usable(t, s)}} :
          x.op \in ops /\ th' = [th EXCEPT ![t] = x]
    /\ UNCHANGED <<engine, strings, vals, nsets, last, ecall, failed, own>>

\* thread t takes the next step of its operation
Run(t) ==
    /\ th[t].pc # "idle"
    /\ th[t].pc = "lock" => CanLock(gate, t)
    /\ LET r == step(Memory, t, th[t], NewAddress, FreshSlot)
       IN  /\ engine' = r.m.engine
           /\ strings' = r.m.strings
           /\ vals' = r.m.vals
           /\ last' = r.m.last
           /\ gate' = r.m.gate
           /\ ecall' = r.m.ecall
           /\ own' = r.m.own
           /\ th' = [th EXCEPT ![t] = r.x]
    /\ UNCHANGED <<nsets, failed>>

NextMT == \E t \in Threads : Begin(t, LifecycleOps) \/ Run(t)

\* the lifecycle operations called by concurrent threads
SpecMT == Init /\ [][NextMT]_vars

\* thread t calls load_ini_settings on a Context it holds
LoadIniSettings(t) ==
    \E s \in Slots, data \in IniTexts :
        /\ th[t].pc = "idle"
        /\ IsContext(vals[s]) /\ Usable(t, s)
        /\ ecall' = Called(Memory, t, "load_ini_settings", "igLoadIniSettingsFromMemory", NULL)
        /\ engine' = load_ini_settings(engine, data)
        /\ last' = [op |-> "load_ini_settings", slot |-> s, result |-> "Ok",
                    raw |-> vals[s].raw, data |-> data,
                    fresh |-> engine.ctx[engine.cur].settings = <<>>]
        /\ UNCHANGED <<strings, vals, nsets, gate, th, failed, own>>

\* thread t calls save_ini_settings on a Context it holds
SaveIniSettings(t) ==
    \E s \in Slots, buf \in Buffers :
        /\ th[t].pc = "idle"
        /\ IsContext(vals[s]) /\ Usable(t, s)
        /\ ecall' = Called(Memory, t, "save_ini_settings", "igSaveIniSettingsToMemory", NULL)
        /\ last' = [op |-> "save_ini_settings", slot |-> s,
                    result |-> save_ini_settings(engine, buf),
                    raw |-> vals[s].raw, buf |-> buf]
        /\ UNCHANGED <<engine, strings, vals, nsets, gate, th, failed, own>>

NextIni ==
    \E t \in Threads :
        \/ Begin(t, {"Context::create", "drop"})
        \/ Run(t)
        \/ LoadIniSettings(t)
        \/ SaveIniSettings(t)

\* Context::create, drop and the two settings operations, called by
\* concurrent threads
SpecIni == Init /\ [][NextIni]_vars

\* the setter calls of a specification that follows a field through a set and
\* a replacement
MaxReplaces == MaxSets + 1

\* thread t calls a setter on a Context it holds, with an argument it made;
\* bound is the number of setter calls of the specification
BeginSet(t, bound) ==
    \E s \in Slots, a \in SetterArgs, op \in SetterOps :
        /\ th[t].pc = "idle"
        /\ IsContext(vals[s]) /\ Usable(t, s)
        /\ nsets < bound
        /\ nsets' = nsets + 1
        /\ strings' = a.strings
        /\ th' = [th EXCEPT ![t] = [op |-> op, pc |-> "ptr", slot |-> s,
                                    h |-> as_ptr_or_null(a.x)]]
        /\ UNCHANGED <<engine, vals, last, gate, ecall, failed, own>>

\* the thread of a program that has one
MainThread == CHOOSE t \in Threads : TRUE

NextSet ==
    \/ Begin(MainThread, {"Context::create", "drop"})
    \/ BeginSet(MainThread, MaxReplaces)
    \/ Run(MainThread)

\* the setters, Context::create and drop, by statement, on one thread
SpecSet == Init /\ [][NextSet]_vars

NextDrop ==
    \/ Begin(MainThread, {"Context::create", "suspend", "drop"})
    \/ BeginSet(MainThread, MaxSets)
    \/ Run(MainThread)

\* the setters, Context::create, suspend and drop, by statement, on one thread
SpecDrop == Init /\ [][NextDrop]_vars

\* ================================================================ claims
cur == engine.cur

ActiveSlots == {s \in Slots : IsContext(vals[s])}
SuspendedSlots == {s \in Slots : IsSuspended(vals[s])}

\* the engine instance at address raw exists in engine state e
AliveIn(e, raw) == raw # NULL /\ e.ctx[raw].live

Alive(raw) == AliveIn(engine, raw)

AllFieldsAbsent(c) ==
    /\ c.ini_filename = None
    /\ c.log_filename = None
    /\ c.platform_name = None
    /\ c.renderer_name = None

\* C1: at most one live Context value (Active representation) exists, and
\* the current-context pointer is null or the raw handle of that Context.
C1_AtMostOneActive ==
    /\ Cardinality(ActiveSlots) <= 1
    /\ cur # NULL => \E s \in ActiveSlots : vals[s].raw = cur

\* C1 witness: an activate has made a context current while another value
\* stays suspended.
C1_Witness ==
    /\ last.op = "activate" /\ last.result = "Ok"
    /\ ActiveSlots = {last.slot}
    /\ cur = vals[last.slot].raw
    /\ SuspendedSlots # {}

\* C2: Context::create with a null current-context pointer succeeds, the
\* new instance is current and its four fields are absent; with a
\* non-null pointer it panics, creates no instance and leaves the pointer
\* (and everything else) unchanged; so a create right after a successful
\* create fails.
C2_CreateStep ==
    last'.op = "Context::create" =>
        IF engine.cur = NULL
        THEN /\ last'.result = "Ok"
             /\ engine'.created = engine.created + 1
             /\ AliveIn(engine', last'.raw)
             /\ engine'.cur = last'.raw
             /\ IsContext(vals'[last'.slot])
             /\ vals'[last'.slot].raw = last'.raw
             /\ AllFieldsAbsent(vals'[last'.slot])
             /\ \A t \in Slots \ {last'.slot} : vals'[t] = vals[t]
        ELSE /\ last'.result = "panic"
             /\ engine' = engine
             /\ vals' = vals
             /\ strings' = strings

C2_SecondCreateFails ==
    (last.op = "Context::create" /\ last.result = "Ok"
        /\ last'.op = "Context::create") => last'.result = "panic"

C2_Create == [][C2_CreateStep /\ C2_SecondCreateFails]_vars

\* C2 witness: a create has panicked because a context was current.
C2_Witness ==
    /\ last.op = "Context::create" /\ last.result = "panic"
    /\ cur # NULL
    /\ ActiveSlots # {}

\* C3: the raw handle of every live SuspendedContext differs from the
\* current-context pointer.
C3_SuspendedNotCurrent ==
    \A s \in SuspendedSlots : vals[s].ctx.raw # cur

\* C3 witness: a failed activate has handed its SuspendedContext back while
\* another context is current, next to a value made by
\* SuspendedContext::create or suspend.
C3_Witness ==
    /\ last.op = "activate" /\ last.result = "Err"
    /\ IsSuspended(vals[last.slot])
    /\ cur # NULL
    /\ Cardinality(SuspendedSlots) >= 2

\* C4: after suspend of the current context returns, the current-context
\* pointer is null, the instance is not destroyed, and Context::create
\* succeeds.
C4_AfterSuspend ==
    (last.op = "suspend" /\ last.result = "Ok") =>
        /\ cur = NULL
        /\ Alive(last.raw)
        /\ IsSuspended(vals[last.slot])
        /\ vals[last.slot].ctx.raw = last.raw
        /\ \A h \in Handles : ~Context_create(World, h).panic

\* C4 witness: a suspend has returned and a create is possible.
C4_Witness ==
    /\ last.op = "suspend" /\ last.result = "Ok"
    /\ NewSlot # 0 /\ NewAddress # NULL
    /\ ENABLED CallContextCreate

\* C5: SuspendedContext::create called while a Context is current returns
\* a new suspended instance and leaves that same Context current.
C5_CreateSuspendedStep ==
    (last'.op = "SuspendedContext::create" /\ engine.cur # NULL) =>
        /\ last'.result = "Ok"
        /\ engine'.cur = engine.cur
        /\ IsSuspended(vals'[last'.slot])
        /\ vals'[last'.slot].ctx.raw = last'.raw
        /\ last'.raw # engine.cur
        /\ AliveIn(engine', last'.raw)
        /\ AliveIn(engine', engine.cur)
        /\ \A t \in Slots \ {last'.slot} : vals'[t] = vals[t]
        /\ \E t \in Slots : IsContext(vals'[t]) /\ vals'[t].raw = engine'.cur

C5_CreateSuspendedKeepsActive == [][C5_CreateSuspendedStep]_vars

\* C5 witness: SuspendedContext::create has returned while a Context is
\* current, and two suspended contexts exist beside the active one.
C5_Witness ==
    /\ last.op = "SuspendedContext::create"
    /\ \E t \in ActiveSlots : vals[t].raw = cur
    /\ Cardinality(SuspendedSlots) >= 2

\* C6 (as stated): after SuspendedContext::create returns, no context is
\* current.
C6_Original ==
    last.op = "SuspendedContext::create" => cur = NULL

\* C6 (amended): SuspendedContext::create leaves the new instance alive and
\* not current, and no context is current afterwards if none was before.
C6_CreateSuspendedStep ==
    last'.op = "SuspendedContext::create" =>
        /\ AliveIn(engine', last'.raw)
        /\ engine'.cur # last'.raw
        /\ engine.cur = NULL => engine'.cur = NULL

C6_CreateSuspendedNotCurrent == [][C6_CreateSuspendedStep]_vars

\* C6 witness: SuspendedContext::create has returned and no context is
\* current, though the instance exists.
C6_Witness ==
    /\ last.op = "SuspendedContext::create"
    /\ cur = NULL
    /\ Alive(last.raw)
    /\ IsSuspended(vals[last.slot])

\* C7: activate(suspend(c)) for the current Context c returns Ok with the
\* same instance, current again: the state is the one before the suspend.
C7_RoundTripInv ==
    \A s \in ActiveSlots :
        is_current_context(vals[s], engine) =>
            LET r1 == suspend(World, vals[s])
                r2 == activate([engine |-> r1.engine, strings |-> r1.strings],
                               r1.value)
            IN  /\ ~r1.panic
                /\ r2.ok
                /\ r2.value = vals[s]
                /\ r2.engine = engine
                /\ r2.strings = strings

C7_RoundTripStep ==
    (last.op = "suspend" /\ last.result = "Ok"
        /\ last'.op = "activate" /\ last'.slot = last.slot) =>
        /\ last'.result = "Ok"
        /\ last'.raw = last.raw
        /\ engine' = [engine EXCEPT !.cur = last.raw]
        /\ vals' = [vals EXCEPT ![last.slot] = vals[last.slot].ctx]
        /\ IsContext(vals'[last.slot])
        /\ strings' = strings

C7_RoundTrip == []C7_RoundTripInv /\ [][C7_RoundTripStep]_vars

\* C7 witness: the only instance ever created has had a field set (so it
\* was active), was suspended and has been activated again.
C7_Witness ==
    /\ last.op = "activate" /\ last.result = "Ok"
    /\ engine.created = 1
    /\ IsContext(vals[last.slot])
    /\ ~AllFieldsAbsent(vals[last.slot])
    /\ cur = vals[last.slot].raw

\* C8: activate with a non-null current-context pointer returns Err with
\* the same suspended instance and changes nothing; the pointer still names
\* the other, active context.
C8_ActivateFailsStep ==
    (last'.op = "activate" /\ engine.cur # NULL) =>
        /\ last'.result = "Err"
        /\ engine' = engine
        /\ vals' = vals
        /\ strings' = strings
        /\ IsSuspended(vals'[last'.slot])
        /\ AliveIn(engine', vals'[last'.slot].ctx.raw)
        /\ \E t \in Slots \ {last'.slot} :
               IsContext(vals'[t]) /\ vals'[t].raw = engine'.cur

C8_ActivateFailureChangesNothing == [][C8_ActivateFailsStep]_vars

\* C8 witness: an activate has returned Err; its instance is alive and
\* suspended and another context is current.
C8_Witness ==
    /\ last.op = "activate" /\ last.result = "Err"
    /\ IsSuspended(vals[last.slot])
    /\ Alive(vals[last.slot].ctx.raw)
    /\ \E t \in ActiveSlots : vals[t].raw = cur

\* C9: dropping an active Context leaves the current-context pointer null;
\* dropping a SuspendedContext leaves the pointer as it was.
C9_DropStep ==
    /\ last'.op = "drop Context" => engine'.cur = NULL
    /\ last'.op = "drop SuspendedContext" => engine'.cur = engine.cur

C9_DropCurrent == [][C9_DropStep]_vars

\* C9 witness: a SuspendedContext has been dropped while another context is
\* current.
C9_Witness ==
    /\ last.op = "drop SuspendedContext"
    /\ \E t \in ActiveSlots : vals[t].raw = cur
    /\ ~Alive(last.raw)

\* the variables whose value owns the instance with identity i
Owners(i) ==
    {s \in Slots : /\ IsValue(vals[s])
                   /\ Alive(Inner(vals[s]).raw)
                   /\ engine.ctx[Inner(vals[s]).raw].id = i}

\* C10: igDestroyContext is called exactly once for every instance created
\* whose owner is gone, never for one that is still owned and never twice;
\* every instance that exists has exactly one owner.
C10_DestroyedExactlyOnce ==
    /\ ~engine.doubleFree
    /\ \A i \in InstIds :
           IF i > engine.created
           THEN engine.destroyed[i] = 0
           ELSE IF Owners(i) # {}
                THEN Cardinality(Owners(i)) = 1 /\ engine.destroyed[i] = 0
                ELSE engine.destroyed[i] = 1
    /\ \A s \in Slots : IsValue(vals[s]) => Alive(Inner(vals[s]).raw)
    /\ \A h \in Handles :
           engine.ctx[h].live =>
               /\ engine.ctx[h].id \in 1 .. engine.created
               /\ \E s \in Slots : IsValue(vals[s]) /\ Inner(vals[s]).raw = h

\* C10 witness: the assertion of suspend has failed and the instance of the
\* consumed Context is destroyed.
C10_Witness ==
    /\ last.op = "suspend" /\ last.result = "panic"
    /\ vals[last.slot] = NoValue
    /\ ~Alive(last.raw)
    /\ \E i \in InstIds : engine.destroyed[i] = 1

\* ---------------------------------------------------------------- C11
\* C11: every call across the engine boundary made by Context::create,
\* SuspendedContext::create, suspend, activate and drop (reading or writing
\* the current-context pointer, creating or destroying an instance) is made
\* while the calling thread holds CTX_MUTEX, and a thread that is in none of
\* these operations, because it returned or panicked, does not hold it.
C11_GateHeld ==
    /\ ecall.op \in LifecycleOps => ecall.held
    /\ \A t \in Threads : th[t].pc = "idle" => gate.owner # t

\* a drop has destroyed its instance under the gate and has returned
C11_Witness ==
    /\ ecall.op = "drop" /\ ecall.prim = "igDestroyContext" /\ ecall.held
    /\ th[ecall.t].pc = "idle"
    /\ last.op = "drop Context"
    /\ gate.owner = NoThread

\* ---------------------------------------------------------------- C12
\* thread t has observed a null current-context pointer in Context::create or
\* in activate and has not installed its instance yet
Installing(t) ==
    \/ th[t].op = "Context::create" /\ th[t].pc = "create"
    \/ th[t].op = "activate" /\ th[t].pc = "set"

\* the value of variable s is being dropped: its instance is destroyed, its
\* fields are not dropped yet
Dying(s) == \E t \in Threads : th[t].slot = s /\ th[t].pc = "fields"

\* the variables that hold a Context whose instance has not been destroyed
LiveActive == {s \in Slots : IsContext(vals[s]) /\ ~Dying(s)}

C12_OneInstaller ==
    /\ Cardinality({t \in Threads : Installing(t)}) <= 1
    /\ Cardinality(LiveActive) <= 1
    /\ \A t \in Threads : Installing(t) => cur = NULL /\ LiveActive = {}

C12_RaceStep ==
    \A t \in Threads :
        /\ (Installing(t) /\ th'[t].pc = "idle")
              => /\ cur = NULL
                 /\ last'.result = "Ok"
                 /\ engine'.cur = last'.raw
                 /\ IsContext(vals'[last'.slot])
        /\ (/\ th[t].op \in {"Context::create", "activate"}
            /\ th[t].pc \in {"assert", "check"}
            /\ th'[t] # th[t])
              => IF cur = NULL
                 THEN Installing(t)' /\ engine'.cur = NULL
                 ELSE /\ th'[t].pc = "idle"
                      /\ last'.result \in {"panic", "Err"}
                      /\ engine'.cur = cur
                      /\ LiveActive' = LiveActive

\* C12: when threads race in Context::create and SuspendedContext::activate,
\* at most one of them is between observing a null current-context pointer
\* and installing its instance; the one that observed null installs its
\* instance and succeeds, and a call that observes a non-null pointer fails
\* (panic for create, Err for activate) and changes nothing.
C12_RaceHasOneWinner == []C12_OneInstaller /\ [][C12_RaceStep]_vars

\* two threads hold one value each; one activated its value, the other's
\* activate returned Err
C12_Witness ==
    \E s1, s2 \in Slots :
        /\ own[s1] # NoThread /\ own[s2] # NoThread /\ own[s1] # own[s2]
        /\ IsContext(vals[s1]) /\ cur = vals[s1].raw
        /\ IsSuspended(vals[s2])
        /\ last.op = "activate" /\ last.result = "Err" /\ last.slot = s2

\* ---------------------------------------------------------------- C13
\* C13: every call across the engine boundary that inspects or mutates
\* engine state is made while the calling thread holds CTX_MUTEX, the
\* igLoadIniSettingsFromMemory call of load_ini_settings and the
\* igSaveIniSettingsToMemory call of save_ini_settings included.
C13_EveryEngineCallHoldsGate == ecall.prim # "none" => ecall.held

\* ---------------------------------------------------------------- C14
Fields == {"ini_filename", "log_filename", "platform_name", "renderer_name"}

\* the engine's pointer for a field of the Context self
Pointer(e, self, field) == io(e, self)[IoFieldOf(field)]

\* a setter of the field is between its two statements on variable s
Setting(s, field) ==
    \E t \in Threads : /\ th[t].slot = s /\ th[t].pc = "assign"
                       /\ FieldOf(th[t].op) = field

\* The claim as stated: at every step, for each field of a live Context, the
\* engine's pointer is null exactly when the owned buffer is absent and
\* otherwise points at the owned, not freed buffer.
C14_Original ==
    \A s \in LiveActive, field \in Fields :
        LET p == Pointer(engine, vals[s], field)
            owned == vals[s][field]
        IN  /\ p = NULL <=> ~owned.some
            /\ owned.some => p = owned.ptr /\ strings[p].live

C14_PointerInv ==
    \A s \in LiveActive, field \in Fields :
        LET p == Pointer(engine, vals[s], field)
            owned == vals[s][field]
        IN  /\ p \notin {NULL, EngineStatic} => strings[p].live
            /\ owned.some => strings[owned.ptr].live
            /\ ~Setting(s, field) =>
                  /\ owned.some => p = owned.ptr
                  /\ ~owned.some => p \in {NULL, EngineStatic}
            /\ \A t \in Threads :
                  (th[t].slot = s /\ th[t].pc = "assign" /\ FieldOf(th[t].op) = field)
                      => p = th[t].h

C14_SetterStep ==
    \A t \in Threads :
        th[t].op \in SetterOps /\ th'[t] # th[t] =>
            LET s == th[t].slot
                field == FieldOf(th[t].op)
                x == Argument(th[t])
            IN  /\ \A g \in Fields \ {field} :
                      /\ vals'[s][g] = vals[s][g]
                      /\ Pointer(engine', vals'[s], g) = Pointer(engine, vals[s], g)
                      /\ getter(engine', strings', vals'[s], g)
                            = getter(engine, strings, vals[s], g)
                /\ th'[t].pc = "idle" =>
                      /\ vals'[s][field] = x
                      /\ Pointer(engine', vals'[s], field) = as_ptr_or_null(x)
                      /\ getter(engine', strings', vals'[s], field)
                            = {IF x.some THEN SomeText(strings[x.ptr].text) ELSE NoText}

\* C14: for each of the four named fields of a live Context: the engine's
\* pointer never names a freed buffer; outside a setter it points at the
\* owned buffer when there is one, and is null (or the engine's own default
\* when the field was never set) when there is none; between the two
\* statements of a setter it already names the new value. When a setter
\* returns, the getter returns Some(the value set) after set(Some(v)) and
\* None after set(None), and the three other fields, their pointers and
\* what their getters return are unchanged.
C14_SettersKeepPointers == []C14_PointerInv /\ [][C14_SetterStep]_vars

\* a field was set and then set again to another value: the first buffer is
\* freed, the field owns the second
C14_Witness ==
    \E s \in LiveActive, field \in Fields, i \in DOMAIN strings :
        /\ last.op \in SetterOps /\ FieldOf(last.op) = field /\ last.slot = s
        /\ vals[s][field].some
        /\ ~strings[i].live
        /\ th[MainThread].pc = "idle"

\* ---------------------------------------------------------------- C15
\* a load_ini_settings or a save_ini_settings call returns in this step
IniStep(op) ==
    /\ last'.op = op /\ ecall'.op = op
    /\ last' # last \/ ecall' # ecall \/ engine' # engine

\* save_ini_settings right after load_ini_settings on the same Context, with
\* an empty buffer
SaveAfterLoad ==
    /\ last.op = "load_ini_settings"
    /\ IniStep("save_ini_settings")
    /\ last'.slot = last.slot
    /\ last'.buf = <<>>

\* save_ini_settings appends to buf, and neither call changes cur
C15_FrameStep ==
    /\ IniStep("load_ini_settings") => engine'.cur = cur
    /\ IniStep("save_ini_settings") =>
          /\ engine' = engine
          /\ SubSeq(last'.result, 1, Len(last'.buf)) = last'.buf
          /\ last'.result = last'.buf \o WriteLines(engine.ctx[cur].settings)

\* The claim as stated: load_ini_settings(data) followed by
\* save_ini_settings(buf) on an empty buf yields text equal to data after
\* trimming both, for any data; save appends, and neither changes cur.
C15_Original ==
    [][/\ SaveAfterLoad => trim(last'.result) = trim(last.data)
       /\ C15_FrameStep]_vars

\* settings text as the engine writes it, up to the whitespace around it:
\* sections, each once, with one blank line between them
Canonical(text) ==
    LET d == trim(text)
    IN  \A i \in 1 .. Len(d) :
            /\ i % 2 = 1 => d[i] \in Sections
            /\ i % 2 = 0 => d[i] = Blank
            /\ \A j \in 1 .. Len(d) : (j # i /\ d[j] = d[i]) => d[i] = Blank

\* C15: for an active Context that holds no settings, and data that is
\* settings text as the engine writes it, load_ini_settings(data) followed
\* by save_ini_settings(buf) on an empty buf yields text equal to data after
\* trimming whitespace on both; save_ini_settings appends to the caller's
\* buffer and neither call changes which context is current.
C15_RoundTrip ==
    [][/\ (SaveAfterLoad /\ last.fresh /\ Canonical(last.data))
             => trim(last'.result) = trim(last.data)
       /\ C15_FrameStep]_vars

\* a save into an empty buffer gave back the section that was loaded
C15_Witness ==
    /\ last.op = "save_ini_settings"
    /\ last.buf = <<>>
    /\ \E x \in Sections : trim(last.result) = <<x>>
    /\ ecall.prim = "igSaveIniSettingsToMemory"

\* ---------------------------------------------------------------- C16
\* the value a failed activate returned is the suspended context it was
\* called on: same instance, alive, not current
C16_FailedIsIntact ==
    \A f \in failed :
        ~f.retried =>
            /\ IsSuspended(vals[f.slot])
            /\ Alive(vals[f.slot].ctx.raw)
            /\ engine.ctx[vals[f.slot].ctx.raw].id = f.id
            /\ cur # vals[f.slot].ctx.raw

\* activate is called again on a value a failed activate returned, when no
\* context is current
C16_RetryStep ==
    \A f \in failed :
        (/\ ~f.retried
         /\ cur = NULL
         /\ last'.op = "activate" /\ last'.slot = f.slot
         /\ vals' # vals \/ last' # last)
            => /\ last'.result = "Ok"
               /\ IsContext(vals'[f.slot])
               /\ engine'.cur = vals'[f.slot].raw
               /\ engine'.ctx[engine'.cur].live
               /\ engine'.ctx[engine'.cur].id = f.id

\* C16: a failed activate is retryable: the value it returned still is the
\* suspended context of the same live instance, and once no context is
\* current (the one that was has been suspended or dropped and nothing else
\* was made current) an activate of that value succeeds and makes that
\* instance current.
C16_FailedActivateRetryable == []C16_FailedIsIntact /\ [][C16_RetryStep]_vars

\* an activate failed, the context that was current went away, and the
\* retry made the same instance current
C16_Witness ==
    \E f \in failed :
        /\ f.retried
        /\ last.op = "activate" /\ last.result = "Ok" /\ last.slot = f.slot
        /\ IsContext(vals[f.slot])
        /\ cur = vals[f.slot].raw
        /\ engine.ctx[cur].id = f.id

\* ---------------------------------------------------------------- C17
\* C17: in every state reachable through the public operations, called in
\* any order by any thread, every live Context (Active representation) is
\* the current context; so the assertion of suspend holds whenever it is
\* evaluated and suspend never panics.
C17_ActiveIsCurrent ==
    /\ \A s \in LiveActive : vals[s].raw = cur /\ Alive(cur)
    /\ \A t \in Threads : th[t].op = "suspend" => th[t].pc \in {"assert", "clear"}
    /\ last.op = "suspend" => last.result = "Ok"

\* a suspend has passed its assertion and returned, with values on both
\* threads
C17_Witness ==
    /\ last.op = "suspend" /\ last.result = "Ok"
    /\ ecall.op = "suspend" /\ ecall.prim = "igSetCurrentContext"
    /\ IsSuspended(vals[last.slot])
    /\ \E s \in Slots : own[s] \notin {NoThread, own[last.slot]}

\* ---------------------------------------------------------------- C18
\* C18: in every reachable state the current-context pointer is null or
\* names an instance that has not been destroyed; igSetCurrentContext and
\* igDestroyContext are never called with the handle of a destroyed
\* instance, and every value that is not being dropped holds the handle of a
\* live instance.
C18_NoDestroyedHandle ==
    /\ cur = NULL \/ Alive(cur)
    /\ ~engine.doubleFree
    /\ ecall.prim \in {"igSetCurrentContext", "igDestroyContext"} => ecall.live
    /\ \A s \in Slots : (IsValue(vals[s]) /\ ~Dying(s)) => Alive(Inner(vals[s]).raw)

\* an instance has been destroyed and another one was made current after
C18_Witness ==
    /\ \E i \in InstIds : engine.destroyed[i] = 1
    /\ last.op = "activate" /\ last.result = "Ok"
    /\ ecall.prim = "igSetCurrentContext" /\ ecall.arg = cur /\ ecall.live
    /\ Alive(cur)

\* ---------------------------------------------------------------- C19
\* C19: when a Context, active or wrapped in a SuspendedContext, is dropped,
\* its instance is destroyed before any of its four buffers is freed: while
\* the fields are dropped the instance is gone, and no live instance ever
\* holds a pointer to a freed buffer.
C19_DestroyBeforeFree ==
    /\ \A h \in Handles, f \in IoFields :
          LET p == engine.ctx[h].io[f]
          IN  (engine.ctx[h].live /\ p \notin {NULL, EngineStatic}) => strings[p].live
    /\ \A t \in Threads :
          th[t].pc = "fields" =>
              /\ ~Alive(Inner(vals[th[t].slot]).raw)
              /\ ecall.prim = "igDestroyContext"
              /\ ecall.arg = Inner(vals[th[t].slot]).raw

\* a SuspendedContext that owned a buffer has been dropped: the buffer is freed
C19_Witness ==
    /\ last.op = "drop SuspendedContext"
    /\ \E i \in DOMAIN strings : ~strings[i].live
    /\ \E i \in InstIds : engine.destroyed[i] = 1

\* ---------------------------------------------------------------- C20
\* no handle is held by two values
C20_HandleHeldOnce ==
    \A s, u \in Slots :
        (s # u /\ IsValue(vals[s]) /\ IsValue(vals[u]))
            => Inner(vals[s]).raw # Inner(vals[u]).raw

\* a suspend or an activate returns in this step
C20_WrapStep ==
    (/\ last'.op \in {"suspend", "activate"}
     /\ last'.result # "panic"
     /\ vals' # vals \/ last' # last)
        => /\ Inner(vals'[last'.slot]) = Inner(vals[last'.slot])
           /\ \A u \in Slots \ {last'.slot} : vals'[u] = vals[u]
           /\ engine' = [engine EXCEPT !.cur = engine'.cur]
           /\ strings' = strings
           /\ vals'[last'.slot].kind # vals[last'.slot].kind <=> last'.result = "Ok"
           /\ last'.result = "Err" => engine' = engine /\ vals' = vals

\* C20: suspend, a successful activate and a failed activate leave the raw
\* handle of the instance, its four named fields, the engine's pointers for
\* them and every buffer unchanged; only the current-context pointer and
\* the Active/Suspended representation change (nothing at all when activate
\* fails), and no handle is held by two values at once.
C20_WrappingKeepsIdentity == []C20_HandleHeldOnce /\ [][C20_WrapStep]_vars

\* a Context that owns a buffer was suspended and activated again: it still
\* owns the buffer and the engine still points at it
C20_Witness ==
    /\ last.op = "activate" /\ last.result = "Ok"
    /\ \E field \in Fields :
          /\ vals[last.slot][field].some
          /\ Pointer(engine, vals[last.slot], field) = vals[last.slot][field].ptr
          /\ strings[vals[last.slot][field].ptr].live

====
